---- MODULE Spec2Model ----
(***************************************************************************)
(* The clinic lookup client: the App component's patient session state    *)
(* (frontend/src/App.jsx), the API client it calls, and the CameraCapture  *)
(* component.                                                              *)
(*                                                                         *)
(* One step of the model is one run-to-completion task of the browser's    *)
(* event loop: a UI event handler up to its first await, or the            *)
(* continuation of a handler after the promise it awaits settles.  A       *)
(* handler invocation that is suspended at an await is an element of       *)
(* `tasks`; it holds the values its closure captured when it was invoked.  *)
(*                                                                         *)
(* The remote API is the environment.  A JSON body it returns is modelled  *)
(* by the token [pid, ver]: the patient it was computed for and the        *)
(* version of the server's data for that patient at the time.              *)
(***************************************************************************)
EXTENDS Integers, Sequences, FiniteSets, TLC

\* ---------------------------------------------------------------- bounds
NumPatients == 2     \* patients the server knows
MaxTasks == 2        \* handler invocations suspended at an await at once
MaxMutations == 2    \* invocations of one mutation handler suspended at once
MaxEnc == 1          \* encounters the server accepts per patient
MaxPhoto == 1        \* photo uploads the server accepts per patient
MaxTextLen == 1      \* length of the text typed into a form field
MaxStreams == 3      \* camera streams the device hands out
MaxCamRequests == 2  \* getUserMedia calls unsettled at once

Patients == 1..NumPatients

\* ---------------------------------------------------------------- values
NoPatient == 0                       \* selectedPatient === null
NoFile == 0                          \* photoFile === null
PickedFile == 1                      \* e.target.files[0]
CameraFile == 2                      \* new File([blob], "camera_capture.jpg")
NoStream == 0                        \* streamRef.current === null
NoToken == "null"
DemoToken == "demo-token"

Roles == {"Field doctor", "Policy maker", "Hospital admin"}
EncounterTypes == {"A&E", "OPD", "Ward", "Clinic"}
DefaultEncounterType == "A&E"
DefaultLoginRole == "Field doctor"   \* useState("Field doctor")
Tabs == {"summary", "encounters", "meds", "vitals"}
Kinds == {"summary", "encounters", "medications", "allergies", "vitalsLabs"}

\* The cleared value of a detail slot (null for summary, [] for the lists),
\* and the body the server returns for a patient's resource.
Empty == [pid |-> NoPatient, ver |-> 0]
Body(p, v) == [pid |-> p, ver |-> v]

\* Text is a sequence of characters; SP is a whitespace character.
SP == " "
Chars == {SP, "a"}
RECURSIVE TextsOfLen(_)
TextsOfLen(n) ==
    IF n = 0 THEN {<<>>}
    ELSE {Append(s, c) : s \in TextsOfLen(n - 1), c \in Chars}
Texts == UNION {TextsOfLen(n) : n \in 0..MaxTextLen}

\* String.prototype.trim: strips leading and trailing whitespace.
RECURSIVE TrimLeft(_)
TrimLeft(s) == IF s # <<>> /\ Head(s) = SP THEN TrimLeft(Tail(s)) ELSE s
RECURSIVE TrimRight(_)
TrimRight(s) ==
    IF s # <<>> /\ s[Len(s)] = SP THEN TrimRight(SubSeq(s, 1, Len(s) - 1)) ELSE s
trim(s) == TrimRight(TrimLeft(s))

\* JavaScript truthiness of a string: only the empty string is falsy.
Truthy(s) == s # <<>>

\* The size a video element reports before it has a frame, and no canvas.
NoVideoSize == [w |-> 0, h |-> 0]
NoCanvas == [width |-> 0, height |-> 0]

\* doctor_name: null in the payload
NullName == <<"null">>

\* ---------------------------------------------------------------- API client
MaxBodyLen == 2      \* length of a response body

ApiOps ==
    {"searchPatients", "getPatientSummary", "getPatientEncounters",
     "getPatientMedications", "getPatientAllergies", "getPatientVitalsLabs",
     "uploadPatientPhoto", "createEncounter"}

\* new Error(...) of each operation
FailureMessage(op) ==
    CASE op = "searchPatients" -> "Failed to search patients"
      [] op = "getPatientSummary" -> "Failed to fetch patient summary"
      [] op = "getPatientEncounters" -> "Failed to fetch encounters"
      [] op = "getPatientMedications" -> "Failed to fetch medications"
      [] op = "getPatientAllergies" -> "Failed to fetch allergies"
      [] op = "getPatientVitalsLabs" -> "Failed to fetch vitals/labs"
      [] op = "uploadPatientPhoto" -> "Failed to upload photo"
      [] op = "createEncounter" -> "Failed to create encounter"

Statuses == {199, 200, 201, 299, 300, 404, 500}

\* res.ok
ResponseOk(status) == 200 <= status /\ status <= 299

\* A response body is a text over a digit, whitespace and a character that
\* belongs to no JSON value.
BodyChars == {"1", SP, "x"}
RECURSIVE BodiesOfLen(_)
BodiesOfLen(n) ==
    IF n = 0 THEN {<<>>}
    ELSE {Append(s, c) : s \in BodiesOfLen(n - 1), c \in BodyChars}
BodyTexts == UNION {BodiesOfLen(n) : n \in 0..MaxBodyLen}

RECURSIVE DigitsValue(_)
DigitsValue(s) ==
    IF s = <<>> THEN 0 ELSE 10 * DigitsValue(SubSeq(s, 1, Len(s) - 1)) + 1

\* res.json(): whitespace around the value is skipped; a text that is no JSON
\* value is a SyntaxError.
ParseJSON(text) ==
    LET t == trim(text) IN
    IF t # <<>> /\ \A n \in DOMAIN t : t[n] = "1"
    THEN [ok |-> TRUE, value |-> DigitsValue(t)]
    ELSE [ok |-> FALSE, value |-> 0]

NoValue == 0 - 1
Throws(message) == [kind |-> "throw", error |-> message, value |-> NoValue]
Returns(value) == [kind |-> "return", error |-> "", value |-> value]
NoOutcome == [kind |-> "none", error |-> "", value |-> NoValue]

\* Mutant: the status of the response is not looked at.
ApiCallIgnoresStatus(op, status, body) ==
    LET parsed == ParseJSON(body) IN
    IF parsed.ok THEN Returns(parsed.value) ELSE Throws("SyntaxError")

\* What a call of operation op makes of the response (status, body).
ApiCall(op, status, body) ==
    IF ~ResponseOk(status) THEN Throws(FailureMessage(op))
    ELSE LET parsed == ParseJSON(body) IN
         IF parsed.ok THEN Returns(parsed.value) ELSE Throws("SyntaxError")

NoCall == [op |-> "", status |-> 0, body |-> <<>>, outcome |-> NoOutcome]

\* ---------------------------------------------------------------- state
VARIABLES
    staffToken, staffRole,
    patients, selectedPatient,
    summary, encounters, medications, allergies, vitalsLabs,
    loading, error, activeTab,
    newEncounterType, newEncounterComplaint, newEncounterDoctor,
    photoFile, uploadingPhoto, showCamera,
    alertMsg,            \* the window.alert text the last step displayed, "" if none
    tasks,               \* handler invocations suspended at an await, oldest first
    srvEnc, srvPhoto,    \* the server: encounters created and photos stored per patient
    api,                 \* one call of the API client: its response and its outcome
    \* CameraCapture component
    camMounted, facingMode, streamRef, camError, videoSrc,
    camRequests,         \* getUserMedia calls not yet settled, oldest first
    streams,             \* acquired MediaStreams: TRUE while the tracks are live
    videoSize,           \* video.videoWidth, video.videoHeight
    canvas,              \* the canvas whose toBlob callback is outstanding
    captured             \* size of the image last handed to onCapture

appVars == <<staffToken, staffRole, patients, selectedPatient,
             summary, encounters, medications, allergies, vitalsLabs,
             loading, error, activeTab,
             newEncounterType, newEncounterComplaint, newEncounterDoctor,
             photoFile, uploadingPhoto, showCamera, alertMsg, tasks,
             srvEnc, srvPhoto, api>>
camVars == <<camMounted, facingMode, streamRef, camError, videoSrc,
             camRequests, streams>>
captureVars == <<videoSize, canvas, captured>>
vars == <<appVars, camVars, captureVars>>

detailSlots == <<summary, encounters, medications, allergies, vitalsLabs>>
formVars == <<newEncounterType, newEncounterComplaint, newEncounterDoctor>>
authVars == <<staffToken, staffRole>>
photoVars == <<photoFile, uploadingPhoto, showCamera>>
serverVars == <<srvEnc, srvPhoto>>

Slot(k) ==
    CASE k = "summary" -> summary
      [] k = "encounters" -> encounters
      [] k = "medications" -> medications
      [] k = "allergies" -> allergies
      [] k = "vitalsLabs" -> vitalsLabs

\* ---------------------------------------------------------------- role gate
\* Mutant: only the field doctor may edit.
canEditClinicalFieldOnly == staffRole = "Field doctor"

canEditClinical == staffRole = "Field doctor" \/ staffRole = "Hospital admin"
isPolicyMaker == staffRole = "Policy maker"

\* ---------------------------------------------------------------- promises
Pending == [s |-> "pending", v |-> 0]
Rejected == [s |-> "rejected", v |-> 0]
Fulfilled(v) == [s |-> "fulfilled", v |-> v]
NotIssued == [s |-> "none", v |-> 0]
Dropped == [s |-> "dropped", v |-> 0]

NoFetches == [k \in Kinds |-> NotIssued]

\* Promise.all over the five detail fetches: rejected as soon as one of them is,
\* fulfilled once all of them are.
PromiseAll(res) ==
    IF \E k \in Kinds : res[k].s = "rejected" THEN "rejected"
    ELSE IF \A k \in Kinds : res[k].s = "fulfilled" THEN "fulfilled"
    ELSE "pending"

\* No fetch of the batch is still on the wire.
Drained(res) == \A k \in Kinds : res[k].s \notin {"pending"}

NoPayload ==
    [encounter_type |-> "", presenting_complaint |-> <<>>, doctor_name |-> NullName]

\* A handler invocation suspended at an await.
\*   op      the handler
\*   pid     patient.patient_id / selectedPatient.patient_id captured by the closure
\*   res     the five detail fetches (loadDetails only)
\*   join    state of the Promise.all promise over them (loadDetails only)
\*   stage   1: awaiting the first call, 2: awaiting the re-fetch
\*   file,ov fileToUse and whether it came as fileOverride (handlePhotoUpload only)
\*   payload body of the create call on the wire (handleCreateEncounter, stage 1)
\*   calls   API operations this invocation has issued so far, in order
\*   alone   no other operation has run since this one was invoked
NewTask(op, pid) ==
    [op |-> op, pid |-> pid, res |-> NoFetches, join |-> "pending",
     stage |-> 1,
     file |-> NoFile, ov |-> FALSE, payload |-> NoPayload, calls |-> <<>>,
     late |-> FALSE,
     alone |-> \A i \in DOMAIN tasks : tasks[i].join = "rejected"]

\* The invocations of handler op that are suspended at an await.
InFlight(op) == {i \in DOMAIN tasks : tasks[i].op = op}

Remove(seq, i) == SubSeq(seq, 1, i - 1) \o SubSeq(seq, i + 1, Len(seq))

\* The answer to search i is consumed: the searches submitted before it that
\* are still waiting will be answered after a search submitted later.
Answered(ts, i) ==
    [j \in DOMAIN ts |->
        IF j < i /\ ts[j].op = "handleSearch" THEN [ts[j] EXCEPT !.late = TRUE]
        ELSE ts[j]]

\* Another operation runs: the invocations in flight are no longer alone.
Overlapped(ts) == [i \in DOMAIN ts |-> [ts[i] EXCEPT !.alone = FALSE]]

\* ---------------------------------------------------------------- server
\* Version of the body the server returns now for resource k of patient p.
ServerVersion(k, p) ==
    CASE k = "summary" -> srvPhoto[p]
      [] k = "encounters" -> srvEnc[p]
      [] OTHER -> 0

\* The searches answered: a search is named by the set of patients it matches.
Queries == {1..n : n \in 0..NumPatients}

\* The patients a search matching the set q returns, in the server's order.
RECURSIVE SearchResults(_)
SearchResults(q) ==
    IF q = {} THEN <<>>
    ELSE LET m == CHOOSE x \in q : \A y \in q : x <= y
         IN <<m>> \o SearchResults(q \ {m})

\* ---------------------------------------------------------------- rendering
MainView == staffToken # NoToken
DetailsPanel == MainView /\ selectedPatient # NoPatient
PhotoControls ==
    DetailsPanel /\ activeTab = "summary" /\ summary # Empty /\ canEditClinical
EncounterForm == DetailsPanel /\ activeTab = "encounters" /\ canEditClinical
CameraShown == PhotoControls /\ showCamera

InList(p, list) == \E i \in DOMAIN list : list[i] = p

\* ---------------------------------------------------------------- Init
Init ==
    /\ staffToken = NoToken
    /\ staffRole = ""
    /\ patients = <<>>
    /\ selectedPatient = NoPatient
    /\ summary = Empty
    /\ encounters = Empty
    /\ medications = Empty
    /\ allergies = Empty
    /\ vitalsLabs = Empty
    /\ loading = FALSE
    /\ error = ""
    /\ activeTab = "summary"
    /\ newEncounterType = DefaultEncounterType
    /\ newEncounterComplaint = <<>>
    /\ newEncounterDoctor = <<>>
    /\ photoFile = NoFile
    /\ uploadingPhoto = FALSE
    /\ showCamera = FALSE
    /\ alertMsg = ""
    /\ tasks = <<>>
    /\ srvEnc = [p \in Patients |-> 0]
    /\ srvPhoto = [p \in Patients |-> 0]
    /\ camMounted = FALSE
    /\ facingMode = "user"
    /\ streamRef = NoStream
    /\ camError = ""
    /\ videoSrc = NoStream
    /\ camRequests = <<>>
    /\ streams = <<>>
    /\ videoSize = NoVideoSize
    /\ canvas = NoCanvas
    /\ captured = NoCanvas
    /\ api = NoCall

\* ---------------------------------------------------------------- login / logout
handleLogin(loginRole) ==
    /\ ~MainView
    /\ staffToken' = DemoToken
    /\ staffRole' = loginRole
    /\ alertMsg' = ""
    /\ UNCHANGED <<patients, selectedPatient, detailSlots, loading, error, activeTab,
                   formVars, photoVars, tasks, serverVars, camVars, captureVars, api>>

Logout ==
    /\ MainView
    /\ staffToken' = NoToken
    /\ staffRole' = ""
    /\ patients' = <<>>
    /\ selectedPatient' = NoPatient
    /\ summary' = Empty
    /\ tasks' = Overlapped(tasks)
    /\ alertMsg' = ""
    /\ UNCHANGED <<encounters, medications, allergies, vitalsLabs, loading, error,
                   activeTab, formVars, photoVars, serverVars, camVars, captureVars, api>>

\* ---------------------------------------------------------------- search
handleSearch ==
    /\ MainView
    /\ Len(tasks) < MaxTasks
    /\ error' = ""
    /\ loading' = TRUE
    /\ selectedPatient' = NoPatient
    /\ summary' = Empty
    /\ encounters' = Empty
    /\ medications' = Empty
    /\ allergies' = Empty
    /\ vitalsLabs' = Empty
    /\ activeTab' = "summary"
    /\ tasks' = Append(Overlapped(tasks),
                       [NewTask("handleSearch", NoPatient) EXCEPT
                           !.calls = <<"searchPatients">>])
    /\ alertMsg' = ""
    /\ UNCHANGED <<authVars, patients, formVars, photoVars, serverVars, camVars, captureVars, api>>

\* searchPatients returned 2xx with the patients matching q.
SearchFulfilled(i, q) ==
    /\ i \in DOMAIN tasks
    /\ tasks[i].op = "handleSearch"
    /\ LET results == SearchResults(q) IN
       /\ patients' = results
       /\ error' = IF Len(results) = 0 THEN "No patients found" ELSE error
    /\ loading' = FALSE
    /\ tasks' = Remove(Answered(tasks, i), i)
    /\ alertMsg' = ""
    /\ UNCHANGED <<authVars, selectedPatient, detailSlots, activeTab, formVars,
                   photoVars, serverVars, camVars, captureVars, api>>

\* Mutant: the failed search is only logged.
SearchRejectedSilent(i) ==
    /\ i \in DOMAIN tasks
    /\ tasks[i].op = "handleSearch"
    /\ loading' = FALSE
    /\ tasks' = Remove(tasks, i)
    /\ alertMsg' = ""
    /\ UNCHANGED <<authVars, patients, selectedPatient, detailSlots, error, activeTab,
                   formVars, photoVars, serverVars, camVars, captureVars, api>>

\* searchPatients threw: the catch sets the error text, the finally clears the flag.
SearchRejected(i) ==
    /\ i \in DOMAIN tasks
    /\ tasks[i].op = "handleSearch"
    /\ error' = "Error searching patients"
    /\ loading' = FALSE
    /\ tasks' = Remove(tasks, i)
    /\ alertMsg' = ""
    /\ UNCHANGED <<authVars, patients, selectedPatient, detailSlots, activeTab,
                   formVars, photoVars, serverVars, camVars, captureVars, api>>

\* ---------------------------------------------------------------- loadDetails
\* The calls Promise.all([...]) is handed: all five are issued, in this order,
\* before the await suspends the handler.
DetailCalls ==
    <<"getPatientSummary", "getPatientEncounters", "getPatientMedications",
      "getPatientAllergies", "getPatientVitalsLabs">>

\* The fetches on the wire when loadDetails suspends.
DetailFetches == [k \in Kinds |-> Pending]

loadDetails(patient) ==
    /\ MainView
    /\ InList(patient, patients)
    /\ Len(tasks) < MaxTasks
    /\ selectedPatient' = patient
    /\ loading' = TRUE
    /\ error' = ""
    /\ activeTab' = "summary"
    /\ tasks' = Append(Overlapped(tasks),
                       [NewTask("loadDetails", patient) EXCEPT
                           !.res = DetailFetches, !.calls = DetailCalls])
    /\ alertMsg' = ""
    /\ UNCHANGED <<authVars, patients, detailSlots, formVars, photoVars, serverVars,
                   camVars, captureVars, api>>

\* The batch after one more of its fetches settled as r.  Once the join has
\* rejected nothing reads a response of the batch: those it has and those
\* that still arrive are dropped.
Settle(t, k, r) ==
    LET res == [t.res EXCEPT ![k] = r]
        join == IF t.join = "pending" THEN PromiseAll(res) ELSE t.join
    IN [t EXCEPT !.join = join,
                 !.res = IF join = "rejected"
                         THEN [x \in Kinds |-> IF res[x] = Pending THEN Pending
                                                ELSE Dropped]
                         ELSE res]

\* Batch i stays suspended while a fetch of it is on the wire; its handler has
\* returned once Promise.all settled, the remaining responses are then dropped.
AfterSettle(i, t) ==
    IF Drained(t.res) THEN Remove(tasks, i) ELSE [tasks EXCEPT ![i] = t]

\* Mutant: every failed fetch reports, as with one catch per resource.
JoinContinuationPerFetch(before, after) ==
    IF before = "pending" /\ after = "fulfilled" THEN "then"
    ELSE IF after = "rejected" THEN "catch"
    ELSE "none"

\* The continuation of loadDetails that runs when the join goes from `before`
\* to `after`: the try body after the await, the catch, or nothing.
JoinContinuation(before, after) ==
    IF before = "pending" /\ after = "fulfilled" THEN "then"
    ELSE IF before = "pending" /\ after = "rejected" THEN "catch"
    ELSE "none"

\* Mutant: the vitals/labs slot is not written.
LoadContinueMissesVitals(t, cont) ==
    /\ summary' = IF cont = "then" THEN Body(t.pid, t.res["summary"].v) ELSE summary
    /\ encounters' =
          IF cont = "then" THEN Body(t.pid, t.res["encounters"].v) ELSE encounters
    /\ medications' =
          IF cont = "then" THEN Body(t.pid, t.res["medications"].v) ELSE medications
    /\ allergies' =
          IF cont = "then" THEN Body(t.pid, t.res["allergies"].v) ELSE allergies
    /\ vitalsLabs' = vitalsLabs
    /\ error' = IF cont = "catch" THEN "Error loading patient details" ELSE error
    /\ loading' = IF cont = "none" THEN loading ELSE FALSE

LoadContinue(t, cont) ==
    /\ summary' = IF cont = "then" THEN Body(t.pid, t.res["summary"].v) ELSE summary
    /\ encounters' =
          IF cont = "then" THEN Body(t.pid, t.res["encounters"].v) ELSE encounters
    /\ medications' =
          IF cont = "then" THEN Body(t.pid, t.res["medications"].v) ELSE medications
    /\ allergies' =
          IF cont = "then" THEN Body(t.pid, t.res["allergies"].v) ELSE allergies
    /\ vitalsLabs' =
          IF cont = "then" THEN Body(t.pid, t.res["vitalsLabs"].v) ELSE vitalsLabs
    /\ error' = IF cont = "catch" THEN "Error loading patient details" ELSE error
    /\ loading' = IF cont = "none" THEN loading ELSE FALSE

FetchSettles(i, k, r) ==
    /\ i \in DOMAIN tasks
    /\ tasks[i].op = "loadDetails"
    /\ tasks[i].res[k] = Pending
    /\ LET t == Settle(tasks[i], k, r) IN
       /\ tasks' = AfterSettle(i, t)
       /\ LoadContinue(t, JoinContinuation(tasks[i].join, t.join))
    /\ alertMsg' = ""
    /\ UNCHANGED <<authVars, patients, selectedPatient, activeTab, formVars,
                   photoVars, serverVars, camVars, captureVars, api>>

\* A 2xx response to one detail fetch: res.json() is returned as it is.
FetchFulfilled(i, k) ==
    /\ i \in DOMAIN tasks
    /\ FetchSettles(i, k, Fulfilled(ServerVersion(k, tasks[i].pid)))

\* A non-2xx response or a network failure: the API call throws.
FetchRejected(i, k) == FetchSettles(i, k, Rejected)

\* ---------------------------------------------------------------- handleCreateEncounter
\* The JSON body of the create call.
EncounterPayload ==
    [encounter_type |-> newEncounterType,
     presenting_complaint |-> newEncounterComplaint,
     doctor_name |-> IF Truthy(newEncounterDoctor) THEN newEncounterDoctor
                     ELSE NullName]

\* Mutant: the complaint is tested without trimming it.
ComplaintMissingUntrimmed(complaint) == ~Truthy(complaint)

\* !newEncounterComplaint.trim()
ComplaintMissing(complaint) == ~Truthy(trim(complaint))

\* Which return the handler takes: the alert it shows and whether it goes on to
\* the create call.
CreateEncounterCheck ==
    IF ~canEditClinical
    THEN [alert |-> "This role has read-only access and cannot add encounters.",
          go |-> FALSE]
    ELSE IF selectedPatient = NoPatient THEN [alert |-> "", go |-> FALSE]
    ELSE IF ComplaintMissing(newEncounterComplaint)
    THEN [alert |-> "Enter presenting complaint", go |-> FALSE]
    ELSE [alert |-> "", go |-> TRUE]

handleCreateEncounter ==
    LET check == CreateEncounterCheck IN
    /\ alertMsg' = check.alert
    /\ IF check.go
       THEN /\ Cardinality(InFlight("handleCreateEncounter")) < MaxMutations
            /\ tasks' = Append(Overlapped(tasks),
                               [NewTask("handleCreateEncounter", selectedPatient) EXCEPT
                                   !.payload = EncounterPayload,
                                   !.calls = <<"createEncounter">>,
                                   !.alone = FALSE])
       ELSE UNCHANGED tasks
    /\ UNCHANGED <<authVars, patients, selectedPatient, detailSlots, loading, error,
                   activeTab, formVars, photoVars, serverVars, camVars, captureVars, api>>

\* Mutant: the created record of the response is appended to the local list.
CreateFulfilledAppends(i) ==
    /\ i \in DOMAIN tasks
    /\ tasks[i].op = "handleCreateEncounter"
    /\ tasks[i].stage = 1
    /\ srvEnc[tasks[i].pid] < MaxEnc
    /\ srvEnc' = [srvEnc EXCEPT ![tasks[i].pid] = @ + 1]
    /\ encounters' = Body(tasks[i].pid, encounters.ver + 1)
    /\ tasks' = [tasks EXCEPT ![i].stage = 2,
                              ![i].payload = NoPayload,
                              ![i].calls = Append(@, "getPatientEncounters")]
    /\ alertMsg' = ""
    /\ UNCHANGED <<authVars, patients, selectedPatient, summary, medications,
                   allergies, vitalsLabs, loading, error, activeTab, formVars,
                   photoVars, srvPhoto, camVars, captureVars, api>>

\* createEncounter returned 2xx: the server stored the encounter; the response is
\* not used and the handler goes on to re-fetch the list.
CreateFulfilled(i) ==
    /\ i \in DOMAIN tasks
    /\ tasks[i].op = "handleCreateEncounter"
    /\ tasks[i].stage = 1
    /\ srvEnc[tasks[i].pid] < MaxEnc
    /\ srvEnc' = [srvEnc EXCEPT ![tasks[i].pid] = @ + 1]
    /\ tasks' = [tasks EXCEPT ![i].stage = 2,
                              ![i].payload = NoPayload,
                              ![i].calls = Append(@, "getPatientEncounters")]
    /\ alertMsg' = ""
    /\ UNCHANGED <<authVars, patients, selectedPatient, detailSlots, loading, error,
                   activeTab, formVars, photoVars, srvPhoto, camVars, captureVars, api>>

\* getPatientEncounters returned 2xx: the list replaces the slot, the form is reset.
EncountersRefetched(i) ==
    /\ i \in DOMAIN tasks
    /\ tasks[i].op = "handleCreateEncounter"
    /\ tasks[i].stage = 2
    /\ encounters' = Body(tasks[i].pid, ServerVersion("encounters", tasks[i].pid))
    /\ newEncounterComplaint' = <<>>
    /\ newEncounterDoctor' = <<>>
    /\ newEncounterType' = DefaultEncounterType
    /\ tasks' = Remove(tasks, i)
    /\ alertMsg' = ""
    /\ UNCHANGED <<authVars, patients, selectedPatient, summary, medications,
                   allergies, vitalsLabs, loading, error, activeTab, photoVars,
                   serverVars, camVars, captureVars, api>>

\* Mutant: the catch also resets the form.
CreateRejectedResetsForm(i) ==
    /\ i \in DOMAIN tasks
    /\ tasks[i].op = "handleCreateEncounter"
    /\ alertMsg' = "Failed to add encounter"
    /\ newEncounterComplaint' = <<>>
    /\ newEncounterDoctor' = <<>>
    /\ newEncounterType' = DefaultEncounterType
    /\ tasks' = Remove(tasks, i)
    /\ UNCHANGED <<authVars, patients, selectedPatient, detailSlots, loading, error,
                   activeTab, photoVars, serverVars, camVars, captureVars, api>>

\* Either call threw: the catch alerts.
CreateRejected(i) ==
    /\ i \in DOMAIN tasks
    /\ tasks[i].op = "handleCreateEncounter"
    /\ alertMsg' = "Failed to add encounter"
    /\ tasks' = Remove(tasks, i)
    /\ UNCHANGED <<authVars, patients, selectedPatient, detailSlots, loading, error,
                   activeTab, formVars, photoVars, serverVars, camVars, captureVars, api>>

\* ---------------------------------------------------------------- handlePhotoUpload
\* fileOverride || photoFile
FileToUse(fileOverride) == IF fileOverride # NoFile THEN fileOverride ELSE photoFile

\* Mutant: the role is not checked.
PhotoUploadCheckNoRole(fileOverride) ==
    IF selectedPatient = NoPatient \/ FileToUse(fileOverride) = NoFile
    THEN [alert |-> "", go |-> FALSE]
    ELSE [alert |-> "", go |-> TRUE]

\* Mutant: the handler refuses while an upload is in progress.
PhotoUploadCheckLocked(fileOverride) ==
    IF selectedPatient = NoPatient \/ FileToUse(fileOverride) = NoFile \/ uploadingPhoto
    THEN [alert |-> "", go |-> FALSE]
    ELSE IF ~canEditClinical
    THEN [alert |-> "This role has read-only access and cannot change photos.",
          go |-> FALSE]
    ELSE [alert |-> "", go |-> TRUE]

PhotoUploadCheck(fileOverride) ==
    IF selectedPatient = NoPatient \/ FileToUse(fileOverride) = NoFile
    THEN [alert |-> "", go |-> FALSE]
    ELSE IF ~canEditClinical
    THEN [alert |-> "This role has read-only access and cannot change photos.",
          go |-> FALSE]
    ELSE [alert |-> "", go |-> TRUE]

\* Leaves showCamera and the capture state to the caller.
handlePhotoUpload(fileOverride) ==
    LET check == PhotoUploadCheck(fileOverride) IN
    /\ alertMsg' = check.alert
    /\ IF check.go
       THEN /\ Cardinality(InFlight("handlePhotoUpload")) < MaxMutations
            /\ uploadingPhoto' = TRUE
            /\ tasks' = Append(Overlapped(tasks),
                               [NewTask("handlePhotoUpload", selectedPatient) EXCEPT
                                   !.file = FileToUse(fileOverride),
                                   !.ov = fileOverride # NoFile,
                                   !.calls = <<"uploadPatientPhoto">>,
                                   !.alone = FALSE])
       ELSE UNCHANGED <<tasks, uploadingPhoto>>
    /\ UNCHANGED <<authVars, patients, selectedPatient, detailSlots, loading, error,
                   activeTab, formVars, photoFile, serverVars, camVars, api>>

\* Mutant: the summary is taken from the response to the upload.
UploadFulfilledSetsSummary(i) ==
    /\ i \in DOMAIN tasks
    /\ tasks[i].op = "handlePhotoUpload"
    /\ tasks[i].stage = 1
    /\ srvPhoto[tasks[i].pid] < MaxPhoto
    /\ srvPhoto' = [srvPhoto EXCEPT ![tasks[i].pid] = @ + 1]
    /\ summary' = Body(tasks[i].pid, srvPhoto[tasks[i].pid] + 1)
    /\ tasks' = [tasks EXCEPT ![i].stage = 2,
                              ![i].calls = Append(@, "getPatientSummary")]
    /\ alertMsg' = ""
    /\ UNCHANGED <<authVars, patients, selectedPatient, encounters, medications,
                   allergies, vitalsLabs, loading, error, activeTab, formVars,
                   photoVars, srvEnc, camVars, captureVars, api>>

\* uploadPatientPhoto returned 2xx: the server stored the photo; the handler goes
\* on to re-fetch the summary.
UploadFulfilled(i) ==
    /\ i \in DOMAIN tasks
    /\ tasks[i].op = "handlePhotoUpload"
    /\ tasks[i].stage = 1
    /\ srvPhoto[tasks[i].pid] < MaxPhoto
    /\ srvPhoto' = [srvPhoto EXCEPT ![tasks[i].pid] = @ + 1]
    /\ tasks' = [tasks EXCEPT ![i].stage = 2,
                              ![i].calls = Append(@, "getPatientSummary")]
    /\ alertMsg' = ""
    /\ UNCHANGED <<authVars, patients, selectedPatient, detailSlots, loading, error,
                   activeTab, formVars, photoVars, srvEnc, camVars, captureVars, api>>

\* Mutant: the chosen file is cleared after every successful upload.
SummaryRefetchedClearsFile(i) ==
    /\ i \in DOMAIN tasks
    /\ tasks[i].op = "handlePhotoUpload"
    /\ tasks[i].stage = 2
    /\ summary' = Body(tasks[i].pid, ServerVersion("summary", tasks[i].pid))
    /\ photoFile' = NoFile
    /\ uploadingPhoto' = FALSE
    /\ tasks' = Remove(tasks, i)
    /\ alertMsg' = ""
    /\ UNCHANGED <<authVars, patients, selectedPatient, encounters, medications,
                   allergies, vitalsLabs, loading, error, activeTab, formVars,
                   showCamera, serverVars, camVars, captureVars, api>>

\* getPatientSummary returned 2xx.
SummaryRefetched(i) ==
    /\ i \in DOMAIN tasks
    /\ tasks[i].op = "handlePhotoUpload"
    /\ tasks[i].stage = 2
    /\ summary' = Body(tasks[i].pid, ServerVersion("summary", tasks[i].pid))
    /\ photoFile' = IF ~tasks[i].ov THEN NoFile ELSE photoFile
    /\ uploadingPhoto' = FALSE
    /\ tasks' = Remove(tasks, i)
    /\ alertMsg' = ""
    /\ UNCHANGED <<authVars, patients, selectedPatient, encounters, medications,
                   allergies, vitalsLabs, loading, error, activeTab, formVars,
                   showCamera, serverVars, camVars, captureVars, api>>

\* Either call threw: the catch alerts, the finally clears the flag.
UploadRejected(i) ==
    /\ i \in DOMAIN tasks
    /\ tasks[i].op = "handlePhotoUpload"
    /\ alertMsg' = "Failed to upload photo"
    /\ uploadingPhoto' = FALSE
    /\ tasks' = Remove(tasks, i)
    /\ UNCHANGED <<authVars, patients, selectedPatient, detailSlots, loading, error,
                   activeTab, formVars, photoFile, showCamera, serverVars, camVars, captureVars, api>>

\* ---------------------------------------------------------------- UI events
setActiveTab(tab) ==
    /\ DetailsPanel
    /\ activeTab' = tab
    /\ alertMsg' = ""
    /\ UNCHANGED <<authVars, patients, selectedPatient, detailSlots, loading, error,
                   formVars, photoVars, tasks, serverVars, camVars, captureVars, api>>

setNewEncounterType(v) ==
    /\ EncounterForm
    /\ newEncounterType' = v
    /\ alertMsg' = ""
    /\ UNCHANGED <<authVars, patients, selectedPatient, detailSlots, loading, error,
                   activeTab, newEncounterComplaint, newEncounterDoctor, photoVars,
                   tasks, serverVars, camVars, captureVars, api>>

setNewEncounterComplaint(v) ==
    /\ EncounterForm
    /\ newEncounterComplaint' = v
    /\ alertMsg' = ""
    /\ UNCHANGED <<authVars, patients, selectedPatient, detailSlots, loading, error,
                   activeTab, newEncounterType, newEncounterDoctor, photoVars,
                   tasks, serverVars, camVars, captureVars, api>>

setNewEncounterDoctor(v) ==
    /\ EncounterForm
    /\ newEncounterDoctor' = v
    /\ alertMsg' = ""
    /\ UNCHANGED <<authVars, patients, selectedPatient, detailSlots, loading, error,
                   activeTab, newEncounterType, newEncounterComplaint, photoVars,
                   tasks, serverVars, camVars, captureVars, api>>

\* The encounter form's onSubmit.
SubmitEncounterForm == EncounterForm /\ handleCreateEncounter

\* The file input's onChange: e.target.files?.[0] || null
setPhotoFile(f) ==
    /\ PhotoControls
    /\ photoFile' = f
    /\ alertMsg' = ""
    /\ UNCHANGED <<authVars, patients, selectedPatient, detailSlots, loading, error,
                   activeTab, formVars, uploadingPhoto, showCamera, tasks,
                   serverVars, camVars, captureVars, api>>

\* The Upload Photo button: disabled={!photoFile || uploadingPhoto}
ClickUploadPhoto ==
    /\ PhotoControls
    /\ photoFile # NoFile /\ ~uploadingPhoto
    /\ handlePhotoUpload(NoFile)
    /\ UNCHANGED <<showCamera, captureVars>>

OpenCamera ==
    /\ PhotoControls
    /\ showCamera' = TRUE
    /\ alertMsg' = ""
    /\ UNCHANGED <<authVars, patients, selectedPatient, detailSlots, loading, error,
                   activeTab, formVars, photoFile, uploadingPhoto, tasks,
                   serverVars, camVars, captureVars, api>>

\* CameraCapture's onClose
CloseCamera ==
    /\ CameraShown
    /\ showCamera' = FALSE
    /\ alertMsg' = ""
    /\ UNCHANGED <<authVars, patients, selectedPatient, detailSlots, loading, error,
                   activeTab, formVars, photoFile, uploadingPhoto, tasks,
                   serverVars, camVars, captureVars, api>>

\* CameraCapture's onCapture(file)
CameraOnCapture ==
    /\ CameraShown
    /\ handlePhotoUpload(CameraFile)
    /\ showCamera' = FALSE
    /\ UNCHANGED captureVars

\* The two mutation entry points called as functions, whatever is rendered.
CallHandleCreateEncounter == handleCreateEncounter

CallHandlePhotoUpload(fileOverride) ==
    /\ handlePhotoUpload(fileOverride)
    /\ UNCHANGED <<showCamera, captureVars>>

\* ---------------------------------------------------------------- the session
\* Login with the role the login form starts with, logout, search and patient
\* selection, with the network's answers.
Next ==
    \/ handleLogin(DefaultLoginRole)
    \/ Logout
    \/ handleSearch
    \/ \E i \in 1..MaxTasks, q \in Queries : SearchFulfilled(i, q)
    \/ \E i \in 1..MaxTasks : SearchRejected(i)
    \/ \E p \in Patients : loadDetails(p)
    \/ \E i \in 1..MaxTasks, k \in Kinds : FetchFulfilled(i, k)
    \/ \E i \in 1..MaxTasks, k \in Kinds : FetchRejected(i, k)

Spec == Init /\ [][Next]_vars

\* ---------------------------------------------------------------- the mutations
\* The session once a user has logged in as `role`, searched, and either
\* selected patient p and seen the details load, or (p = NoPatient) not yet
\* selected anyone.
SessionWith(role, p) ==
    /\ staffToken = DemoToken
    /\ staffRole = role
    /\ patients = SearchResults(Patients)
    /\ selectedPatient = p
    /\ summary = (IF p = NoPatient THEN Empty ELSE Body(p, 0))
    /\ encounters = (IF p = NoPatient THEN Empty ELSE Body(p, 0))
    /\ medications = (IF p = NoPatient THEN Empty ELSE Body(p, 0))
    /\ allergies = (IF p = NoPatient THEN Empty ELSE Body(p, 0))
    /\ vitalsLabs = (IF p = NoPatient THEN Empty ELSE Body(p, 0))
    /\ loading = FALSE
    /\ error = ""
    /\ activeTab = "summary"
    /\ newEncounterType = DefaultEncounterType
    /\ newEncounterComplaint = <<>>
    /\ newEncounterDoctor = <<>>
    /\ photoFile = NoFile
    /\ uploadingPhoto = FALSE
    /\ showCamera = FALSE
    /\ alertMsg = ""
    /\ tasks = <<>>
    /\ srvEnc = [x \in Patients |-> 0]
    /\ srvPhoto = [x \in Patients |-> 0]
    /\ camMounted = FALSE
    /\ facingMode = "user"
    /\ streamRef = NoStream
    /\ camError = ""
    /\ videoSrc = NoStream
    /\ camRequests = <<>>
    /\ streams = <<>>
    /\ videoSize = NoVideoSize
    /\ canvas = NoCanvas
    /\ captured = NoCanvas
    /\ api = NoCall

SelectedInit ==
    \E role \in Roles, p \in Patients \cup {NoPatient} : SessionWith(role, p)

\* Encounter creation from the rendered form.
EncNext ==
    \/ \E tab \in Tabs : setActiveTab(tab)
    \/ \E v \in EncounterTypes : setNewEncounterType(v)
    \/ \E v \in Texts : setNewEncounterComplaint(v)
    \/ \E v \in Texts : setNewEncounterDoctor(v)
    \/ SubmitEncounterForm
    \/ \E i \in 1..MaxTasks : CreateFulfilled(i)
    \/ \E i \in 1..MaxTasks : EncountersRefetched(i)
    \/ \E i \in 1..MaxTasks : CreateRejected(i)

EncSpec == SelectedInit /\ [][EncNext]_vars

\* Photo change from the rendered controls: the file picker and the camera.
PhotoNext ==
    \/ \E tab \in Tabs : setActiveTab(tab)
    \/ \E f \in {NoFile, PickedFile} : setPhotoFile(f)
    \/ ClickUploadPhoto
    \/ OpenCamera
    \/ CloseCamera
    \/ CameraOnCapture
    \/ \E i \in 1..MaxTasks : UploadFulfilled(i)
    \/ \E i \in 1..MaxTasks : SummaryRefetched(i)
    \/ \E i \in 1..MaxTasks : UploadRejected(i)

PhotoSpec == SelectedInit /\ [][PhotoNext]_vars

\* The two mutation entry points called as functions, whatever is rendered, in
\* a session of any role (or none) that holds any form content and any file.
EntryInit ==
    \E role \in Roles \cup {""}, p \in Patients \cup {NoPatient},
       type \in EncounterTypes, complaint \in Texts, doctor \in Texts,
       file \in {NoFile, PickedFile} :
        /\ staffToken = (IF role = "" THEN NoToken ELSE DemoToken)
        /\ staffRole = role
        /\ patients = (IF role = "" THEN <<>> ELSE SearchResults(Patients))
        /\ selectedPatient = (IF role = "" THEN NoPatient ELSE p)
        /\ summary = (IF role = "" \/ p = NoPatient THEN Empty ELSE Body(p, 0))
        /\ encounters = (IF role = "" \/ p = NoPatient THEN Empty ELSE Body(p, 0))
        /\ medications = (IF role = "" \/ p = NoPatient THEN Empty ELSE Body(p, 0))
        /\ allergies = (IF role = "" \/ p = NoPatient THEN Empty ELSE Body(p, 0))
        /\ vitalsLabs = (IF role = "" \/ p = NoPatient THEN Empty ELSE Body(p, 0))
        /\ loading = FALSE
        /\ error = ""
        /\ activeTab = "summary"
        /\ newEncounterType = type
        /\ newEncounterComplaint = complaint
        /\ newEncounterDoctor = doctor
        /\ photoFile = file
        /\ uploadingPhoto = FALSE
        /\ showCamera = FALSE
        /\ alertMsg = ""
        /\ tasks = <<>>
        /\ srvEnc = [x \in Patients |-> 0]
        /\ srvPhoto = [x \in Patients |-> 0]
        /\ camMounted = FALSE
        /\ facingMode = "user"
        /\ streamRef = NoStream
        /\ camError = ""
        /\ videoSrc = NoStream
        /\ camRequests = <<>>
        /\ streams = <<>>
        /\ videoSize = NoVideoSize
        /\ canvas = NoCanvas
        /\ captured = NoCanvas
        /\ api = NoCall

EntryNext ==
    \/ CallHandleCreateEncounter
    \/ \E f \in {NoFile, PickedFile, CameraFile} : CallHandlePhotoUpload(f)
    \/ \E i \in DOMAIN tasks : CreateFulfilled(i)
    \/ \E i \in DOMAIN tasks : EncountersRefetched(i)
    \/ \E i \in DOMAIN tasks : CreateRejected(i)
    \/ \E i \in DOMAIN tasks : UploadFulfilled(i)
    \/ \E i \in DOMAIN tasks : SummaryRefetched(i)
    \/ \E i \in DOMAIN tasks : UploadRejected(i)

EntrySpec == EntryInit /\ [][EntryNext]_vars

\* Both mutations from the rendered controls: the encounter form, the Upload
\* Photo button and the camera, with the tab switch between them.
SubmitNext ==
    \/ \E tab \in {"summary", "encounters"} : setActiveTab(tab)
    \/ \E v \in Texts : setNewEncounterComplaint(v)
    \/ \E f \in {NoFile, PickedFile} : setPhotoFile(f)
    \/ SubmitEncounterForm
    \/ ClickUploadPhoto
    \/ OpenCamera
    \/ CloseCamera
    \/ CameraOnCapture
    \/ \E i \in DOMAIN tasks : CreateFulfilled(i)
    \/ \E i \in DOMAIN tasks : EncountersRefetched(i)
    \/ \E i \in DOMAIN tasks : CreateRejected(i)
    \/ \E i \in DOMAIN tasks : UploadFulfilled(i)
    \/ \E i \in DOMAIN tasks : SummaryRefetched(i)
    \/ \E i \in DOMAIN tasks : UploadRejected(i)

SubmitSpec == SelectedInit /\ [][SubmitNext]_vars

\* ---------------------------------------------------------------- CameraCapture
\* streamRef.current and video.srcObject hold a stream (its index in `streams`) or
\* NoStream; they are those of the mounted instance, NoStream when none is.
FacingModes == {"user", "environment"}
CameraErrorText == "Unable to access camera. Check permissions or try a different device."

\* Mutant: the tracks are left running.
StopNoTracks(strms, ref) == strms

\* stream.getTracks().forEach((t) => t.stop()), guarded by if (streamRef.current)
StopTracks(strms, ref) ==
    IF ref = NoStream THEN strms ELSE [strms EXCEPT ![ref] = FALSE]

LiveStreams(strms) == {id \in DOMAIN strms : strms[id]}

\* startCamera up to its await, run on streams `strms` with streamRef.current = ref:
\* the held stream is stopped and the ref cleared, then getUserMedia is called.
\*   held  streamRef.current when the effect ran
\*   live  the streams with live tracks at the moment of the getUserMedia call
\*   orphan  the instance that made the call has been unmounted
\*   stale   the effect has run again (or been torn down) since the call
startCamera(strms, ref, mode) ==
    LET stopped == StopTracks(strms, ref) IN
    [streams |-> stopped,
     request |-> [mode |-> mode, held |-> ref, live |-> LiveStreams(stopped),
                  orphan |-> FALSE, stale |-> FALSE]]

\* The effect's cleanup: stops the held stream, leaves the ref as it is.
EffectCleanup(strms, ref) == StopTracks(strms, ref)

\* The calls of earlier runs of the effect stay outstanding: nothing cancels them.
Superseded(reqs) == [i \in DOMAIN reqs |-> [reqs[i] EXCEPT !.stale = TRUE]]

\* showCamera && <CameraCapture/>: a new instance mounts and its effect runs.
CameraMount ==
    /\ ~camMounted
    /\ Len(camRequests) < MaxCamRequests
    /\ camMounted' = TRUE
    /\ facingMode' = "user"
    /\ LET run == startCamera(streams, NoStream, "user") IN
       /\ streams' = run.streams
       /\ camRequests' = Append(camRequests, run.request)
    /\ streamRef' = NoStream
    /\ videoSrc' = NoStream
    /\ camError' = ""
    /\ UNCHANGED <<appVars, captureVars>>

\* Front camera / Back camera: facingMode changes, the effect is cleaned up and
\* runs again.  Setting the mode it already has renders nothing anew.
setFacingMode(mode) ==
    /\ camMounted
    /\ mode # facingMode
    /\ Len(camRequests) < MaxCamRequests
    /\ facingMode' = mode
    /\ LET run == startCamera(EffectCleanup(streams, streamRef), streamRef, mode) IN
       /\ streams' = run.streams
       /\ camRequests' = Append(Superseded(camRequests), run.request)
    /\ streamRef' = NoStream
    /\ camError' = ""
    /\ UNCHANGED <<camMounted, videoSrc, appVars, captureVars>>

\* getUserMedia resolves with a new stream.
GetUserMediaFulfilled(i) ==
    /\ i \in DOMAIN camRequests
    /\ Len(streams) < MaxStreams
    /\ streams' = Append(streams, TRUE)
    /\ streamRef' = IF camRequests[i].orphan THEN streamRef ELSE Len(streams) + 1
    /\ videoSrc' = IF camRequests[i].orphan THEN videoSrc ELSE Len(streams) + 1
    /\ camRequests' = Remove(camRequests, i)
    /\ videoSize' = IF camRequests[i].orphan THEN videoSize ELSE NoVideoSize
    /\ UNCHANGED <<camMounted, facingMode, camError, appVars, canvas, captured>>

\* getUserMedia rejects: permission denied, no device, unsupported facing mode.
GetUserMediaRejected(i) ==
    /\ i \in DOMAIN camRequests
    /\ camError' = IF camRequests[i].orphan THEN camError ELSE CameraErrorText
    /\ camRequests' = Remove(camRequests, i)
    /\ UNCHANGED <<camMounted, facingMode, streamRef, videoSrc, streams, appVars, captureVars>>

\* Close, close after a capture, or the enclosing view no longer rendered: the
\* effect's cleanup runs and the instance is gone.
CameraUnmount ==
    /\ camMounted
    /\ streams' = EffectCleanup(streams, streamRef)
    /\ camMounted' = FALSE
    /\ streamRef' = NoStream
    /\ videoSrc' = NoStream
    /\ camRequests' = [i \in DOMAIN camRequests |->
                          [camRequests[i] EXCEPT !.orphan = TRUE, !.stale = TRUE]]
    /\ videoSize' = NoVideoSize
    /\ UNCHANGED <<facingMode, camError, appVars, canvas, captured>>

CamNext ==
    \/ CameraMount
    \/ \E mode \in FacingModes : setFacingMode(mode)
    \/ \E i \in 1..MaxCamRequests : GetUserMediaFulfilled(i)
    \/ \E i \in 1..MaxCamRequests : GetUserMediaRejected(i)
    \/ CameraUnmount

CamSpec == Init /\ [][CamNext]_vars

\* ---------------------------------------------------------------- API calls
\* A call of the client is made: fetch is awaited.
ApiRequest(op) ==
    /\ api.op = "" \/ api.outcome # NoOutcome
    /\ api' = [NoCall EXCEPT !.op = op]
    /\ UNCHANGED <<authVars, patients, selectedPatient, detailSlots, loading, error,
                   activeTab, formVars, photoVars, alertMsg, tasks, serverVars,
                   camVars, captureVars>>

\* The response arrives and the call settles.
ApiResponse(status, body) ==
    /\ api.op # ""
    /\ api.outcome = NoOutcome
    /\ api' = [api EXCEPT !.status = status, !.body = body,
                          !.outcome = ApiCall(api.op, status, body)]
    /\ UNCHANGED <<authVars, patients, selectedPatient, detailSlots, loading, error,
                   activeTab, formVars, photoVars, alertMsg, tasks, serverVars,
                   camVars, captureVars>>

ApiNext ==
    \/ \E op \in ApiOps : ApiRequest(op)
    \/ \E status \in Statuses, body \in BodyTexts : ApiResponse(status, body)

ApiSpec == Init /\ [][ApiNext]_vars

\* ---------------------------------------------------------------- one action at a time
\* No handler invocation is suspended and no getUserMedia call is outstanding.
Idle == tasks = <<>> /\ camRequests = <<>>

\* A logged-in session with a patient selected, a complaint typed and a file
\* chosen.
ActionInit ==
    /\ EntryInit
    /\ staffRole # ""
    /\ selectedPatient # NoPatient
    /\ newEncounterType = DefaultEncounterType
    /\ newEncounterComplaint = <<"a">>
    /\ newEncounterDoctor = <<>>
    /\ photoFile = PickedFile

\* Each of the five actions that awaits the network or the camera, started while
\* nothing else is in flight, and what comes back; the camera is not granted.
ActionNext ==
    \/ Idle /\ handleSearch
    \/ \E i \in 1..MaxTasks, q \in Queries : SearchFulfilled(i, q)
    \/ \E i \in 1..MaxTasks : SearchRejected(i)
    \/ \E p \in Patients : Idle /\ loadDetails(p)
    \/ \E i \in 1..MaxTasks, k \in Kinds : FetchFulfilled(i, k)
    \/ \E i \in 1..MaxTasks, k \in Kinds : FetchRejected(i, k)
    \/ Idle /\ CallHandleCreateEncounter
    \/ \E i \in 1..MaxTasks : CreateFulfilled(i)
    \/ \E i \in 1..MaxTasks : EncountersRefetched(i)
    \/ \E i \in 1..MaxTasks : CreateRejected(i)
    \/ \E f \in {NoFile, CameraFile} : Idle /\ CallHandlePhotoUpload(f)
    \/ \E i \in 1..MaxTasks : UploadFulfilled(i)
    \/ \E i \in 1..MaxTasks : SummaryRefetched(i)
    \/ \E i \in 1..MaxTasks : UploadRejected(i)
    \/ Idle /\ CameraMount
    \/ \E i \in 1..MaxCamRequests : GetUserMediaRejected(i)
    \/ CameraUnmount

ActionSpec == ActionInit /\ [][ActionNext]_vars

\* ---------------------------------------------------------------- roles
\* Login under each role and logout, around searches and calls of the encounter
\* entry point.
AuthNext ==
    \/ \E r \in Roles : handleLogin(r)
    \/ Logout
    \/ handleSearch
    \/ \E i \in 1..MaxTasks, q \in Queries : SearchFulfilled(i, q)
    \/ \E i \in 1..MaxTasks : SearchRejected(i)
    \/ CallHandleCreateEncounter

AuthSpec == Init /\ [][AuthNext]_vars

\* ---------------------------------------------------------------- logout
\* Logout while a detail load, an encounter creation or a photo upload started
\* from the rendered controls is still in flight, and what comes back afterwards;
\* each operation is started while nothing else is in flight.
LogoutNext ==
    \/ Logout
    \/ \E tab \in {"summary", "encounters"} : setActiveTab(tab)
    \/ \E p \in Patients : Idle /\ loadDetails(p)
    \/ \E i \in DOMAIN tasks, k \in Kinds : FetchFulfilled(i, k)
    \/ \E i \in DOMAIN tasks, k \in Kinds : FetchRejected(i, k)
    \/ Idle /\ SubmitEncounterForm
    \/ \E i \in DOMAIN tasks : CreateFulfilled(i)
    \/ \E i \in DOMAIN tasks : EncountersRefetched(i)
    \/ \E i \in DOMAIN tasks : CreateRejected(i)
    \/ Idle /\ ClickUploadPhoto
    \/ \E i \in DOMAIN tasks : UploadFulfilled(i)
    \/ \E i \in DOMAIN tasks : SummaryRefetched(i)
    \/ \E i \in DOMAIN tasks : UploadRejected(i)

LogoutInit == ActionInit /\ staffRole = DefaultLoginRole

LogoutSpec == LogoutInit /\ [][LogoutNext]_vars

\* ---------------------------------------------------------------- handleCaptureClick
MaxDim == 2          \* largest width and height a stream reports
DefaultWidth == 640
DefaultHeight == 480

\* What a video element reports: 0 x 0 until it has a frame, then the resolution
\* of the stream.
StreamSizes == {[w |-> w, h |-> h] : w \in 1..MaxDim, h \in 1..MaxDim}

\* x || d on numbers: d when x is 0.
OrDefault(x, d) == IF x # 0 THEN x ELSE d

\* Mutant: both dimensions fall back to the default width.
CanvasSizeSquareDefault(size) ==
    [width |-> OrDefault(size.w, DefaultWidth),
     height |-> OrDefault(size.h, DefaultWidth)]

\* canvas.width, canvas.height
CanvasSize(size) ==
    [width |-> OrDefault(size.w, DefaultWidth),
     height |-> OrDefault(size.h, DefaultHeight)]

\* The video has a frame of the stream it plays.
VideoPlays(size) ==
    /\ camMounted
    /\ videoSrc # NoStream
    /\ videoSize = NoVideoSize
    /\ videoSize' = size
    /\ UNCHANGED <<appVars, camVars, canvas, captured>>

\* Capture & Use Photo, up to the toBlob call; one callback outstanding at a time.
handleCaptureClick ==
    /\ CameraShown
    /\ camMounted
    /\ canvas = NoCanvas
    /\ canvas' = CanvasSize(videoSize)
    /\ UNCHANGED <<appVars, camVars, videoSize, captured>>

\* onCapture as App passes it: handlePhotoUpload(file); setShowCamera(false)
onCapture(file) ==
    /\ handlePhotoUpload(file)
    /\ showCamera' = FALSE

\* toBlob's callback with the encoded image, which has the size of the canvas.
CaptureBlobReady ==
    /\ canvas # NoCanvas
    /\ captured' = canvas
    /\ canvas' = NoCanvas
    /\ onCapture(CameraFile)
    /\ UNCHANGED videoSize

\* toBlob's callback with null: if (!blob) return
CaptureBlobNull ==
    /\ canvas # NoCanvas
    /\ canvas' = NoCanvas
    /\ UNCHANGED <<appVars, camVars, videoSize, captured>>

\* showCamera && <CameraCapture/>: the component is mounted while it is rendered.
CameraRendered == CameraShown /\ CameraMount
CameraRemoved == ~CameraShown /\ CameraUnmount

\* Capturing a photo with the camera, from opening it to the refreshed summary.
CaptureNext ==
    \/ OpenCamera
    \/ CloseCamera
    \/ CameraRendered
    \/ CameraRemoved
    \/ \E i \in 1..MaxCamRequests : GetUserMediaFulfilled(i)
    \/ \E i \in 1..MaxCamRequests : GetUserMediaRejected(i)
    \/ \E size \in StreamSizes : VideoPlays(size)
    \/ handleCaptureClick
    \/ CaptureBlobReady
    \/ CaptureBlobNull
    \/ \E i \in 1..MaxTasks : UploadFulfilled(i)
    \/ \E i \in 1..MaxTasks : SummaryRefetched(i)
    \/ \E i \in 1..MaxTasks : UploadRejected(i)

CaptureSpec == SelectedInit /\ [][CaptureNext]_vars

\* ================================================================ claims
AllSlotsEmpty == \A k \in Kinds : Slot(k) = Empty
LoadTasks == {i \in DOMAIN tasks : tasks[i].op = "loadDetails"}

\* C1: a loadDetails(p) that no other operation overlaps and whose five fetches
\* all succeed has issued all five fetches before any response is consumed, and
\* when it completes selectedPatient = p and each of the five slots holds exactly
\* the body fetched for p.
C1_AllIssued ==
    \A i \in LoadTasks :
        /\ tasks[i].calls = DetailCalls
        /\ \A k \in Kinds : tasks[i].res[k] # NotIssued

\* What the last response to batch i, the one to fetch k, leaves.
C1_Loaded(i, k) ==
    /\ selectedPatient' = tasks[i].pid
    /\ \A x \in Kinds :
          Slot(x)' = Body(tasks[i].pid,
                          IF x = k THEN ServerVersion(k, tasks[i].pid)
                          ELSE tasks[i].res[x].v)
    /\ tasks' = Remove(tasks, i)

\* No step is the last response to an unoverlapped batch and leaves anything else.
C1_AloneStep ==
    \A i \in DOMAIN tasks, k \in Kinds :
        ~ ( /\ tasks[i].op = "loadDetails"
            /\ tasks[i].alone
            /\ tasks[i].res[k] = Pending
            /\ \A x \in Kinds \ {k} : tasks[i].res[x].s = "fulfilled"
            /\ ~C1_Loaded(i, k)
            /\ FetchFulfilled(i, k) )

C1_SelectLoadsExactly == [][C1_AllIssued' /\ C1_AloneStep]_vars

C1_Witness ==
    /\ tasks = <<>>
    /\ selectedPatient = NumPatients
    /\ \A k \in Kinds : Slot(k) = Body(NumPatients, 0)
    /\ ~loading
    /\ error = ""

\* C2: the step that selects a patient resets all five detail slots to empty.
C2_SelectClearsSlots ==
    [][(\E p \in Patients : loadDetails(p)) => AllSlotsEmpty']_vars

\* C3: in every reachable state every populated detail slot holds data fetched
\* for the currently selected patient.
C3_SlotsOfSelection ==
    \A k \in Kinds : Slot(k) # Empty => Slot(k).pid = selectedPatient

\* C4: when a fetch of a batch fails, the joined error is set by the first
\* failure and by nothing the batch does afterwards, and no response of that
\* batch is written to a slot.
C4_FirstFailure ==
    /\ error' = "Error loading patient details"
    /\ UNCHANGED detailSlots

C4_AfterFailure == UNCHANGED <<error, loading, detailSlots>>

\* No step is the first failure of a batch and does anything but C4_FirstFailure,
\* none is a later response to a failed batch and does anything at all.
C4_JoinStep ==
    \A i \in DOMAIN tasks, k \in Kinds :
        /\ ~ ( /\ tasks[i].op = "loadDetails"
               /\ tasks[i].join = "pending"
               /\ tasks[i].res[k] = Pending
               /\ ~C4_FirstFailure
               /\ FetchRejected(i, k) )
        /\ ~ ( /\ tasks[i].op = "loadDetails"
               /\ tasks[i].join = "rejected"
               /\ tasks[i].res[k] = Pending
               /\ ~C4_AfterFailure
               /\ FetchRejected(i, k) \/ FetchFulfilled(i, k) )

C4_FailedBatchOneError == [][C4_JoinStep]_vars

C4_Witness ==
    \E i \in LoadTasks :
        /\ tasks[i].join = "rejected"
        /\ Cardinality({k \in Kinds : tasks[i].res[k] = Dropped}) >= 2
        /\ error = "Error loading patient details"

\* C5: logout leaves selectedPatient null and all five detail collections empty.
C5_LogoutClears ==
    [][Logout => (selectedPatient' = NoPatient /\ AllSlotsEmpty')]_vars

\* Empty or whitespace only.
IsBlank(text) == \A n \in DOMAIN text : text[n] = SP

\* C6: submitting the encounter form with an empty or whitespace-only complaint
\* issues no network call and leaves the encounters list unchanged.
C6_BlankComplaintRejected ==
    [][(SubmitEncounterForm /\ IsBlank(newEncounterComplaint))
           => UNCHANGED <<tasks, encounters>>]_vars

C6_Witness ==
    /\ newEncounterComplaint = <<SP>>
    /\ alertMsg = "Enter presenting complaint"

\* C7: under a read-only role neither mutation entry point issues a network
\* call, whatever the form holds, the file and the selected patient.
C7_ReadOnlyNoCalls ==
    [][( /\ ~(staffRole \in {"Field doctor", "Hospital admin"})
         /\ \/ CallHandleCreateEncounter
            \/ \E f \in {NoFile, PickedFile, CameraFile} : CallHandlePhotoUpload(f) )
           => UNCHANGED tasks]_vars

C7_Witness ==
    /\ staffRole = "Policy maker"
    /\ selectedPatient # NoPatient
    /\ photoFile # NoFile
    /\ ~ComplaintMissing(newEncounterComplaint)
    /\ alertMsg \in {"This role has read-only access and cannot change photos.",
                     "This role has read-only access and cannot add encounters."}

CreateTasks == {i \in DOMAIN tasks : tasks[i].op = "handleCreateEncounter"}

\* C8: a valid submission under a mutation-capable role issues one createEncounter
\* call; the getPatientEncounters re-fetch is issued once, when the create call
\* has returned; the encounters slot is written only by the re-fetch, with the
\* list the server returns.
C8_CallsInOrder ==
    \A i \in CreateTasks :
        /\ tasks[i].stage = 1 => tasks[i].calls = <<"createEncounter">>
        /\ tasks[i].stage = 2 =>
              tasks[i].calls = <<"createEncounter", "getPatientEncounters">>

C8_Step ==
    /\ ( /\ SubmitEncounterForm
         /\ selectedPatient # NoPatient
         /\ ~IsBlank(newEncounterComplaint) )
           => /\ Len(tasks') = Len(tasks) + 1
              /\ tasks'[Len(tasks')].calls = <<"createEncounter">>
              /\ tasks'[Len(tasks')].pid = selectedPatient
    /\ \A i \in 1..MaxTasks :
          /\ CreateFulfilled(i) => (encounters' = encounters /\ tasks'[i].stage = 2)
          /\ EncountersRefetched(i) =>
                encounters' = Body(tasks[i].pid, srvEnc[tasks[i].pid])
    /\ encounters' # encounters => \E i \in CreateTasks : tasks[i].stage = 2

C8_CreateThenRefetch == [][C8_CallsInOrder' /\ C8_Step]_vars

C8_Witness ==
    /\ \E p \in Patients : encounters = Body(p, 1) /\ srvEnc[p] = 1
    /\ newEncounterComplaint = <<>>
    /\ tasks = <<>>

\* C9: when the facing mode is switched, the stream held until then has all its
\* tracks stopped by the time getUserMedia is called for the new mode.
C9_StoppedBeforeRequest ==
    \A i \in DOMAIN camRequests :
        camRequests[i].held # NoStream =>
            camRequests[i].held \notin camRequests[i].live

C9_Witness ==
    \E i \in DOMAIN camRequests :
        camRequests[i].held # NoStream /\ camRequests[i].mode = "environment"

\* C10: at most one acquired camera stream has live tracks.
C10_AtMostOneLive == Cardinality(LiveStreams(streams)) <= 1

\* C11: once the capture view is closed and no getUserMedia call is outstanding,
\* no acquired stream has live tracks.
C11_ClosedNoLive ==
    (~camMounted /\ camRequests = <<>>) => LiveStreams(streams) = {}

\* C12: when the getUserMedia call of the current run of the effect fails, the
\* controller holds no stream afterwards, the error message is set and no other
\* call is made; a stream comes to be held only by a successful acquisition.
C12_FailedStep ==
    \A i \in DOMAIN camRequests :
        (~camRequests[i].stale /\ GetUserMediaRejected(i))
            => /\ streamRef' = NoStream
               /\ camError' = CameraErrorText
               /\ camRequests' = Remove(camRequests, i)

C12_HeldStep ==
    (streamRef' # NoStream /\ streamRef' # streamRef)
        => \E i \in DOMAIN camRequests : GetUserMediaFulfilled(i)

C12_FailureLeavesNoStream == [][C12_FailedStep /\ C12_HeldStep]_vars

\* C13: a capture from a video that reports w x h, both positive, makes an image
\* of exactly w x h, and a capture from a video that reports 0 x 0 makes one of
\* exactly 640 x 480; the image handed on has the size of the canvas.
C13_Expected ==
    IF videoSize.w > 0 /\ videoSize.h > 0
    THEN [width |-> videoSize.w, height |-> videoSize.h]
    ELSE [width |-> 640, height |-> 480]

C13_Step ==
    /\ handleCaptureClick => canvas' = C13_Expected
    /\ CaptureBlobReady => captured' = canvas

C13_CaptureSize == [][C13_Step]_vars

C13_Witness ==
    /\ videoSize = NoVideoSize
    /\ captured = [width |-> 640, height |-> 480]

\* C14: canEditClinical is true exactly under the roles "Field doctor" and
\* "Hospital admin"; it is false under "Policy maker" and while nobody is logged
\* in, when no role is active; the role changes only at login and at logout.
C14_Flag ==
    /\ canEditClinical <=> staffRole \in {"Field doctor", "Hospital admin"}
    /\ staffRole = "Policy maker" => ~canEditClinical
    /\ staffToken = NoToken => (staffRole = "" /\ ~canEditClinical)

C14_RoleStep ==
    staffRole' # staffRole => (Logout \/ \E r \in Roles : handleLogin(r))

C14_RoleGate == [][C14_Flag /\ C14_Flag' /\ C14_RoleStep]_vars

C14_Witness ==
    /\ staffRole = "Hospital admin"
    /\ canEditClinical
    /\ patients # <<>>

\* C15: for each of the eight operations, a response that is not 2xx makes the
\* call throw an error whose message belongs to that operation alone, and no
\* value is returned; a 2xx response with a JSON body makes the call return the
\* value the body parses to.
C15_Settled == api.outcome # NoOutcome

C15_ClientContract ==
    C15_Settled =>
        /\ api.op \in ApiOps
        /\ ~(api.status \in 200..299) =>
              /\ api.outcome.kind = "throw"
              /\ api.outcome.value = NoValue
              /\ \A op \in ApiOps :
                    (FailureMessage(op) = api.outcome.error) <=> (op = api.op)
        /\ (api.status \in 200..299 /\ ParseJSON(api.body).ok) =>
              /\ api.outcome.kind = "return"
              /\ api.outcome.value = ParseJSON(api.body).value

C15_Witness ==
    /\ api.op = "createEncounter"
    /\ api.status = 500
    /\ api.body = <<"1">>
    /\ api.outcome = Throws("Failed to create encounter")

UploadTasks == {i \in DOMAIN tasks : tasks[i].op = "handlePhotoUpload"}

\* C16: for a file chosen by hand (no override, photoFile) and for a camera image
\* (the override) alike, handlePhotoUpload goes on exactly when a patient is
\* selected and the role may edit, and then issues one uploadPatientPhoto call;
\* the getPatientSummary re-fetch is issued once, when the upload has returned,
\* and its result replaces the summary; a failed upload issues no re-fetch and
\* leaves the summary as it is.
C16_CallsInOrder ==
    \A i \in UploadTasks :
        /\ tasks[i].stage = 1 => tasks[i].calls = <<"uploadPatientPhoto">>
        /\ tasks[i].stage = 2 =>
              tasks[i].calls = <<"uploadPatientPhoto", "getPatientSummary">>

C16_EntryStep ==
    \A f \in {NoFile, CameraFile} :
        LET file == IF f = NoFile THEN photoFile ELSE f IN
        (CallHandlePhotoUpload(f) /\ file # NoFile)
            => IF /\ selectedPatient # NoPatient
                  /\ staffRole \in {"Field doctor", "Hospital admin"}
               THEN /\ Len(tasks') = Len(tasks) + 1
                    /\ tasks'[Len(tasks')].calls = <<"uploadPatientPhoto">>
                    /\ tasks'[Len(tasks')].pid = selectedPatient
                    /\ tasks'[Len(tasks')].file = file
               ELSE tasks' = tasks

C16_SettleStep ==
    /\ \A i \in DOMAIN tasks :
          /\ UploadFulfilled(i) => (summary' = summary /\ tasks'[i].stage = 2)
          /\ SummaryRefetched(i) =>
                summary' = Body(tasks[i].pid, srvPhoto[tasks[i].pid])
          /\ UploadRejected(i) =>
                (summary' = summary /\ tasks' = Remove(tasks, i))
    /\ summary' # summary => \E i \in UploadTasks : tasks[i].stage = 2

C16_SameForBothSources ==
    [][C16_CallsInOrder' /\ C16_EntryStep /\ C16_SettleStep]_vars

C16_Witness ==
    /\ \E i \in UploadTasks :
          tasks[i].file = CameraFile /\ tasks[i].ov /\ tasks[i].stage = 2
    /\ \E i \in UploadTasks :
          tasks[i].file = PickedFile /\ ~tasks[i].ov /\ tasks[i].stage = 1

\* What the catch of each action with a network call does: the message is set
\* and the invocation ends.
C17_NetworkFailures ==
    /\ \A i \in DOMAIN tasks :
          /\ SearchRejected(i) =>
                (error' = "Error searching patients" /\ tasks' = Remove(tasks, i))
          /\ CreateRejected(i) =>
                (alertMsg' = "Failed to add encounter" /\ tasks' = Remove(tasks, i))
          /\ UploadRejected(i) =>
                (alertMsg' = "Failed to upload photo" /\ tasks' = Remove(tasks, i))
    /\ \A i \in DOMAIN tasks, k \in Kinds :
          ( /\ tasks[i].op = "loadDetails"
            /\ tasks[i].join = "pending"
            /\ FetchRejected(i, k) )
              => /\ error' = "Error loading patient details"
                 /\ ~loading'
                 /\ \/ tasks' = Remove(tasks, i)
                    \/ tasks'[i].join = "rejected"

\* C17 as stated: every failure, of a network call or of camera acquisition, is
\* turned into a message the user sees, and the action ends.
C17_AllFailuresShown ==
    [][ /\ C17_NetworkFailures
        /\ \A i \in DOMAIN camRequests :
              GetUserMediaRejected(i) =>
                  /\ camError' = CameraErrorText
                  /\ camRequests' = Remove(camRequests, i) ]_vars

\* C17, amended: every failure is caught and the action ends; it is turned into
\* a message the user sees, except that a camera failure that arrives when the
\* capture view has been closed shows nothing.
C17_FailuresCaught ==
    [][ /\ C17_NetworkFailures
        /\ \A i \in DOMAIN camRequests :
              GetUserMediaRejected(i) =>
                  /\ camRequests' = Remove(camRequests, i)
                  /\ IF camRequests[i].orphan
                     THEN UNCHANGED <<appVars, camError, streamRef, streams>>
                     ELSE camError' = CameraErrorText ]_vars

C17_Witness ==
    /\ camMounted
    /\ camError = CameraErrorText
    /\ error = "Error loading patient details"
    /\ alertMsg = "Failed to upload photo"
    /\ Idle

\* C18: the create request carries doctor_name null when the doctor field is
\* empty or whitespace only, and the entered name otherwise.
C18_DoctorNormalised ==
    [][(SubmitEncounterForm /\ Len(tasks') = Len(tasks) + 1)
          => tasks'[Len(tasks')].payload.doctor_name =
                IF IsBlank(newEncounterDoctor) THEN NullName
                ELSE newEncounterDoctor]_vars

\* C19: every invocation of handleCreateEncounter or handlePhotoUpload under a
\* read-only role reports a permission error, whatever the selected patient,
\* the file and the complaint are.
C19_PermissionErrors ==
    {"This role has read-only access and cannot add encounters.",
     "This role has read-only access and cannot change photos."}

C19_RoleCheckedFirst ==
    [][(/\ staffRole # ""
        /\ ~canEditClinical
        /\ \/ CallHandleCreateEncounter
           \/ \E f \in {NoFile, PickedFile, CameraFile} : CallHandlePhotoUpload(f))
          => alertMsg' \in C19_PermissionErrors]_vars

\* C20: neither mutation is locked against repeated submission: a valid
\* submission of the encounter form, and a photo sent from the camera or the
\* Upload Photo button, issues its call even while a call of the same kind is
\* still in flight.
C20_CreateInFlight == \E i \in CreateTasks : tasks[i].stage = 1
C20_UploadInFlight == \E i \in UploadTasks : tasks[i].stage = 1

C20_NoSubmissionLock ==
    [][/\ (/\ C20_CreateInFlight
           /\ Cardinality(CreateTasks) < MaxMutations
           /\ ~ComplaintMissing(newEncounterComplaint)
           /\ SubmitEncounterForm)
          => /\ Len(tasks') = Len(tasks) + 1
             /\ tasks'[Len(tasks')].op = "handleCreateEncounter"
             /\ tasks'[Len(tasks')].calls = <<"createEncounter">>
       /\ (/\ C20_UploadInFlight
           /\ Cardinality(UploadTasks) < MaxMutations
           /\ CameraOnCapture \/ ClickUploadPhoto)
          => /\ Len(tasks') = Len(tasks) + 1
             /\ tasks'[Len(tasks')].op = "handlePhotoUpload"
             /\ tasks'[Len(tasks')].calls = <<"uploadPatientPhoto">>]_vars

\* Two create calls and two upload calls in flight at once.
C20_Witness ==
    /\ Cardinality({i \in CreateTasks : tasks[i].stage = 1}) = 2
    /\ Cardinality({i \in UploadTasks : tasks[i].stage = 1}) = 2

\* C21: Capture & Use Photo prepares an image, and so an upload, only while a
\* stream has been acquired and is held: not while getUserMedia is pending and
\* not after it failed.
C21_Streaming == streamRef # NoStream /\ camError = ""

C21_CaptureOnlyStreaming ==
    [][(handleCaptureClick \/ CaptureBlobReady) => C21_Streaming]_vars

\* C22: a captured image is never stored in photoFile: an upload started from
\* the camera leaves photoFile as it is, when it starts and when it ends; a
\* successful upload of the chosen file resets photoFile to null; a failed
\* upload leaves photoFile as it is; uploadingPhoto is false after every upload
\* ends, successful or not.
C22_Step ==
    /\ photoFile' # CameraFile
    /\ CameraOnCapture => photoFile' = photoFile
    /\ \A i \in DOMAIN tasks :
          /\ SummaryRefetched(i) =>
                /\ photoFile' = (IF tasks[i].ov THEN photoFile ELSE NoFile)
                /\ ~uploadingPhoto'
          /\ UploadRejected(i) => (photoFile' = photoFile /\ ~uploadingPhoto')

C22_PhotoFileOwnership == [][C22_Step]_vars

\* The upload of a camera image has succeeded and its re-fetch is in flight
\* while a file chosen by hand is held.
C22_Witness ==
    /\ photoFile = PickedFile
    /\ \E i \in UploadTasks :
          tasks[i].file = CameraFile /\ tasks[i].ov /\ tasks[i].stage = 2

\* C23: when createEncounter or the encounter re-fetch fails, the encounters
\* slot and the three form fields stay as they are and "Failed to add encounter"
\* is shown; the form is reset to its defaults (type "A&E", empty complaint,
\* empty doctor) only when both calls have succeeded.
C23_FormUnchanged ==
    /\ newEncounterType' = newEncounterType
    /\ newEncounterComplaint' = newEncounterComplaint
    /\ newEncounterDoctor' = newEncounterDoctor

C23_Step ==
    \A i \in DOMAIN tasks :
        /\ CreateRejected(i) =>
              /\ encounters' = encounters
              /\ C23_FormUnchanged
              /\ alertMsg' = "Failed to add encounter"
        /\ CreateFulfilled(i) => (encounters' = encounters /\ C23_FormUnchanged)
        /\ EncountersRefetched(i) =>
              /\ newEncounterType' = "A&E"
              /\ newEncounterComplaint' = <<>>
              /\ newEncounterDoctor' = <<>>

C23_FailureKeepsForm == [][C23_Step]_vars

\* The encounter was stored but its re-fetch failed: the message is shown, the
\* slot still holds the old list and the form still holds the complaint.
C23_Witness ==
    /\ selectedPatient # NoPatient
    /\ alertMsg = "Failed to add encounter"
    /\ srvEnc[selectedPatient] = 1
    /\ encounters = Body(selectedPatient, 0)
    /\ newEncounterComplaint # <<>>
    /\ tasks = <<>>

\* A step that sends a request: a handler starts, or a suspended one goes on
\* to its next call.
C24_RequestIssued ==
    \/ Len(tasks') > Len(tasks)
    \/ /\ Len(tasks') = Len(tasks)
       /\ \E i \in DOMAIN tasks : Len(tasks'[i].calls) > Len(tasks[i].calls)

\* C24: while logged out, no network request is issued and no patient data is
\* written into the patients list or the five detail slots, whatever was in
\* flight at logout.
C24_QuietAfterLogout ==
    [][(staffToken = NoToken /\ staffToken' = NoToken)
          => /\ ~C24_RequestIssued
             /\ UNCHANGED <<patients, detailSlots>>]_vars

\* C25: handleSearch clears the selection and the five detail slots in the step
\* that issues its request, and of several overlapping searches the one
\* submitted last decides the patients list: an answer that arrives after the
\* answer to a search submitted later does not replace the list.
C25_LastSubmittedWins ==
    [][/\ handleSearch => (selectedPatient' = NoPatient /\ AllSlotsEmpty')
       /\ \A i \in DOMAIN tasks, q \in Queries :
             (tasks[i].late /\ SearchFulfilled(i, q)) => patients' = patients]_vars

\* A search whose answer is awaited, or a detail load whose Promise.all has not
\* settled yet.
C26_Awaited ==
    {i \in DOMAIN tasks :
        /\ tasks[i].op \in {"handleSearch", "loadDetails"}
        /\ tasks[i].join = "pending"}

\* C26: loading is true exactly while a search or a detail-load batch is in
\* flight, under any overlap of searches and selections.
C26_LoadingWhileInFlight == loading <=> C26_Awaited # {}

====
